---------------------------- MODULE Spec2Model ----------------------------
(***************************************************************************)
(* A model of the CanonPtr module pass                                     *)
(* (llvm/lib/Transforms/Utils/CanonPtr.cpp).                               *)
(*                                                                         *)
(* The pass walks every eligible function of a module, snapshots its       *)
(* getelementptr instructions and, for each one that is not skipped,       *)
(* inserts after it a sequence                                             *)
(*    ptrtoint ; lshr 48 ; and 1 ; sub 0,_ ; shl 49 ; and ; add ; inttoptr *)
(* and redirects the original users of the GEP to the inttoptr.            *)
(*                                                                         *)
(* The IR is modelled structurally (functions, blocks, instructions,       *)
(* operands) and 64-bit integer values are modelled bit-exactly as four    *)
(* 16-bit limbs, least significant first.                                  *)
(***************************************************************************)
EXTENDS Integers, Sequences, FiniteSets, TLC

VARIABLES
    module,   \* the Module: a sequence of Functions
    pc,       \* position of the driver: "idle", "module" (loop of run), "geps" (loop of runOnFunc)
    fi,       \* index of the function the loop of run() is at
    GEPs,     \* the snapshot vector of runOnFunc (instruction ids)
    gi,       \* index into GEPs of the loop of runOnFunc
    runs,     \* number of invocations of run() started so far
    log,      \* history: one record per loop iteration of runOnFunc
    env,      \* run-time values of the function arguments (64-bit words)
    vals,     \* run-time values of the instructions of the executed function
    ret,      \* result of the last getInsertPointAfter call made on its own
    calls     \* number of getInsertPointAfter calls made on their own

vars == <<module, pc, fi, GEPs, gi, runs, log, env, vals, ret, calls>>

\* Op applied to the value of e, with e evaluated once
Let(e, Op(_)) == CHOOSE r \in {Op(x) : x \in {e}} : TRUE

-----------------------------------------------------------------------------
(* 64-bit integers                                                         *)

PtrBits == 64
LimbBits == PtrBits \div 4
Base == 2 ^ LimbBits
NLimbs == PtrBits \div LimbBits
Limbs == 1..NLimbs

Zero == [i \in Limbs |-> 0]
AllOnes == [i \in Limbs |-> Base - 1]

\* APInt(64, n, /*isSigned*/ true) for |n| < 2^31: two's complement, sign-extended
FromInt(n) ==
    [i \in Limbs |->
        IF i = 1 THEN n % Base
        ELSE IF i = 2 THEN (n \div Base) % Base
        ELSE IF n < 0 THEN Base - 1 ELSE 0]

RECURSIVE AddCarry(_, _, _)
AddCarry(a, b, i) ==
    IF i = 1 THEN 0 ELSE (a[i-1] + b[i-1] + AddCarry(a, b, i-1)) \div Base

\* add i64: wraps modulo 2^64
Add(a, b) == [i \in Limbs |-> (a[i] + b[i] + AddCarry(a, b, i)) % Base]

Not(a) == [i \in Limbs |-> (Base - 1) - a[i]]

\* sub i64: a + ~b + 1
Sub(a, b) == Let(Add(Not(b), FromInt(1)), LAMBDA nb : Add(a, nb))

RECURSIVE BitAnd(_, _)
BitAnd(x, y) ==
    IF x = 0 \/ y = 0 THEN 0
    ELSE (x % 2) * (y % 2) + 2 * BitAnd(x \div 2, y \div 2)

\* and i64
And(a, b) == [i \in Limbs |-> BitAnd(a[i], b[i])]

\* variant: a rotation, the bits shifted out at the top come back at the bottom
Shl_Rotate(a, n) ==
    LET q == n \div LimbBits
        r == n % LimbBits
        at(j) == a[((j - 1) % NLimbs) + 1]
    IN [i \in Limbs |->
           (at(i - q) % (2 ^ (LimbBits - r))) * (2 ^ r)
         + (at(i - q - 1) \div (2 ^ (LimbBits - r)))]

\* shl i64 a, n   (0 <= n < 64): bits shifted out at the top are lost
Shl(a, n) ==
    LET q == n \div LimbBits
        r == n % LimbBits
    IN [i \in Limbs |->
           (IF i - q >= 1 THEN (a[i-q] % (2 ^ (LimbBits - r))) * (2 ^ r) ELSE 0)
         + (IF i - q - 1 >= 1 THEN a[i-q-1] \div (2 ^ (LimbBits - r)) ELSE 0)]

\* lshr i64 a, n  (0 <= n < 64): zeros shifted in at the top
LShr(a, n) ==
    LET q == n \div LimbBits
        r == n % LimbBits
    IN [i \in Limbs |->
           (IF i + q <= NLimbs THEN a[i+q] \div (2 ^ r) ELSE 0)
         + (IF i + q + 1 <= NLimbs THEN (a[i+q+1] % (2 ^ r)) * (2 ^ (LimbBits - r)) ELSE 0)]

RECURSIVE MulCarry(_, _, _)
MulCarry(a, k, i) ==
    IF i = 1 THEN 0 ELSE (a[i-1] * k + MulCarry(a, k, i-1)) \div Base

\* mul i64 a, k for a small non-negative scale k (an element size)
MulSmall(a, k) == [i \in Limbs |-> (a[i] * k + MulCarry(a, k, i)) % Base]

\* the value of a small constant used as a shift amount
ShAmt(w) == w[1]

\* bit n of a word (0 = least significant)
Bit(w, n) == (w[(n \div LimbBits) + 1] \div (2 ^ (n % LimbBits))) % 2


-----------------------------------------------------------------------------
(* Names (StringRef) are sequences of characters                           *)

S_vtable == <<"v","t","a","b","l","e">>
S_vbase_offset == <<"v","b","a","s","e",".","o","f","f","s","e","t">>
S_ZTV == <<"_","Z","T","V">>
S_canonptr == <<"_","_","c","a","n","o","n","p","t","r","_">>

\* StringRef::starts_with
StartsWith(s, prefix) ==
    /\ Len(s) >= Len(prefix)
    /\ SubSeq(s, 1, Len(prefix)) = prefix

-----------------------------------------------------------------------------
(* Values, instructions, blocks, functions                                 *)

NoName == <<>>

\* a Value: an Instruction, an Argument, a GlobalVariable or a ConstantInt
InstV(i) == [k |-> "inst", id |-> i, name |-> NoName, w |-> Zero]
ArgV(n, nm) == [k |-> "arg", id |-> n, name |-> nm, w |-> Zero]
GlobalV(nm) == [k |-> "global", id |-> 0, name |-> nm, w |-> Zero]
ConstV(word) == [k |-> "const", id |-> 0, name |-> NoName, w |-> word]
NullV == [k |-> "null", id |-> 0, name |-> NoName, w |-> Zero]

\* an Instruction.  ops: operands; blks: incoming blocks of a PHI, the
\* successors of a terminator (invoke: <<normal, unwind>>); strides: the
\* byte size the data layout gives for each index of a GEP; vec: whether the
\* result type is a vector
Inst(op, nm, ops, blks, strides, vec) ==
    [op |-> op, name |-> nm, ops |-> ops, blks |-> blks, strides |-> strides, vec |-> vec]

Terminators == {"br", "ret", "invoke", "unreachable"}
IsTerminator(I) == I.op \in Terminators
\* Instruction::isEHPad
IsEHPad(I) == I.op = "landingpad"

\* Value::getName / hasName of a value used as an operand
NameOf(F, v) == IF v.k = "inst" THEN F.insts[v.id].name ELSE v.name
HasName(F, v) == NameOf(F, v) # NoName

RECURSIVE Flatten(_, _)
Flatten(blocks, i) ==
    IF i > Len(blocks) THEN <<>> ELSE blocks[i].insts \o Flatten(blocks, i + 1)

\* instructions(F): all instruction ids in layout order
Instructions(F) == Flatten(F.blocks, 1)

\* index in F.blocks of the block with id b
BlockIndex(F, b) == CHOOSE i \in 1..Len(F.blocks) : F.blocks[i].id = b

\* Instruction::getParent, as an index into F.blocks
ParentIdx(F, i) ==
    CHOOSE bi \in 1..Len(F.blocks) :
        \E j \in 1..Len(F.blocks[bi].insts) : F.blocks[bi].insts[j] = i

\* position of instruction i in the instruction list of its block
PosIn(F, i) ==
    LET L == F.blocks[ParentIdx(F, i)].insts
    IN CHOOSE j \in 1..Len(L) : L[j] = i

\* the users of instruction g: the instructions having g as an operand
UsersOf(F, g) ==
    {u \in 1..Len(F.insts) :
        \E j \in 1..Len(F.insts[u].ops) : F.insts[u].ops[j] = InstV(g)}

\* User::replaceUsesOfWith(From, To): every operand slot holding From
ReplaceUsesOfWith(I, from, to) ==
    [I EXCEPT !.ops = [j \in 1..Len(I.ops) |-> IF I.ops[j] = from THEN to ELSE I.ops[j]]]

\* BasicBlock::getFirstInsertionPt: the first instruction that is neither a
\* PHI nor an EH pad
RECURSIVE FirstNonPHIPos(_, _, _)
FirstNonPHIPos(F, L, j) ==
    IF j > Len(L) THEN j
    ELSE IF F.insts[L[j]].op = "phi" THEN FirstNonPHIPos(F, L, j + 1) ELSE j

GetFirstInsertionPt(F, bi) ==
    LET L == F.blocks[bi].insts
        j == FirstNonPHIPos(F, L, 1)
    IN IF IsEHPad(F.insts[L[j]]) THEN L[j + 1] ELSE L[j]

\* the PHI nodes at the head of block bi
LeadingPHIs(F, bi) ==
    LET L == F.blocks[bi].insts
    IN {L[j] : j \in 1..(FirstNonPHIPos(F, L, 1) - 1)}

-----------------------------------------------------------------------------
(* Inserting instructions                                                  *)

\* insert instruction record I immediately before instruction pos; the new
\* instruction gets the next free id
InsertBefore(F, pos, I) ==
    LET id == Len(F.insts) + 1
        bi == ParentIdx(F, pos)
        L == F.blocks[bi].insts
        j == PosIn(F, pos)
    IN [F EXCEPT !.insts = Append(F.insts, I),
                 !.blocks[bi].insts = SubSeq(L, 1, j - 1) \o <<id>> \o SubSeq(L, j, Len(L))]

NextBlockId(F) ==
    LET ids == {F.blocks[i].id : i \in 1..Len(F.blocks)}
    IN (CHOOSE m \in ids : \A x \in ids : x <= m) + 1

S_invoke_insert_point ==
    <<"i","n","v","o","k","e","_","i","n","s","e","r","t","_","p","o","i","n","t">>

\* variant: the PHI nodes of the successor are not patched
PatchIncoming_None(blks, Src, NewBlock) == blks

\* lines 47-48: every incoming block of a PHI that is Src becomes NewBlock
PatchIncoming(blks, Src, NewBlock) ==
    [j \in 1..Len(blks) |-> IF blks[j] = Src THEN NewBlock ELSE blks[j]]

\* getInsertPointAfter(Instruction *) for an invoke: split the normal edge
SplitInvokeEdge(F, i) ==
    LET Invoke == F.insts[i]
        Dst == Invoke.blks[1]
        di == BlockIndex(F, Dst)
        Src == F.blocks[ParentIdx(F, i)].id
        NewBlock == NextBlockId(F)
        Br == Len(F.insts) + 1
        phis == LeadingPHIs(F, di)
        insts1 == Append(F.insts, Inst("br", NoName, <<>>, <<Dst>>, <<>>, FALSE))
        insts2 == [x \in 1..(Len(F.insts) + 1) |->
                    IF x = i THEN [F.insts[x] EXCEPT !.blks[1] = NewBlock]
                    ELSE IF x \in phis
                    THEN [F.insts[x] EXCEPT !.blks = PatchIncoming(F.insts[x].blks, Src, NewBlock)]
                    ELSE insts1[x]]
        blocks1 == SubSeq(F.blocks, 1, di - 1)
                   \o <<[id |-> NewBlock, name |-> S_invoke_insert_point, insts |-> <<Br>>]>>
                   \o SubSeq(F.blocks, di, Len(F.blocks))
    IN [st |-> "ok", F |-> [F EXCEPT !.insts = insts2, !.blocks = blocks1], pos |-> Br]

\* getInsertPointAfter(Instruction *I).  ndebug: whether the build compiles
\* assert() out.  st = "abort": the assertion failed; st = "ub": the
\* iterator past the terminator was dereferenced (pos is no instruction)
GetInsertPointAfter(F, i, ndebug) ==
    LET I == F.insts[i]
        bi == ParentIdx(F, i)
    IN IF I.op = "invoke" THEN SplitInvokeEdge(F, i)
       ELSE IF I.op = "phi"
       THEN [st |-> "ok", F |-> F, pos |-> GetFirstInsertionPt(F, bi)]
       ELSE IF IsTerminator(I)
       THEN IF ndebug THEN [st |-> "ub", F |-> F, pos |-> 0]
            ELSE [st |-> "abort", F |-> F, pos |-> 0]
       ELSE [st |-> "ok", F |-> F, pos |-> F.blocks[bi].insts[PosIn(F, i) + 1]]

\* getInsertPointAfter(Argument *A), for a function F with a body
GetInsertPointAfterArg(F, ndebug) ==
    IF Len(F.blocks) = 0
    THEN IF ndebug THEN [st |-> "ub", F |-> F, pos |-> 0]
         ELSE [st |-> "abort", F |-> F, pos |-> 0]
    ELSE [st |-> "ok", F |-> F, pos |-> GetFirstInsertionPt(F, 1)]

-----------------------------------------------------------------------------
(* CanonPtrPass::shouldInstrument and CanonPtrPass::isVtableGep            *)

\* Function::empty
FEmpty(F) == Len(F.blocks) = 0
\* GlobalValue::isDeclaration: a function without a body
IsDeclaration(F) == FEmpty(F)

\* variant: the DisableSanitizerInstrumentation test left out
ShouldInstrument_NoOptOut(F) ==
    IF FEmpty(F) THEN FALSE
    ELSE IF IsDeclaration(F) THEN FALSE
    ELSE IF F.linkage = "available_externally" THEN FALSE
    ELSE IF StartsWith(F.name, S_canonptr) THEN FALSE
    ELSE "CanonPtr" \in F.attrs

ShouldInstrument(F) ==
    IF FEmpty(F) THEN FALSE
    ELSE IF IsDeclaration(F) THEN FALSE
    ELSE IF F.linkage = "available_externally" THEN FALSE
    ELSE IF StartsWith(F.name, S_canonptr) THEN FALSE
    ELSE IF "DisableSanitizerInstrumentation" \in F.attrs THEN FALSE
    ELSE "CanonPtr" \in F.attrs

\* GetElementPtrInst accessors: operand 0 is the pointer, the rest indices
PointerOperand(I) == I.ops[1]
NumIndices(I) == Len(I.ops) - 1
Index(I, n) == I.ops[n + 1]

\* variant: the test of the _ZTV global left out
IsVtableGep_NoGlobal(F, g) ==
    LET Gep == F.insts[g]
        SrcPtr == PointerOperand(Gep)
    IN IF HasName(F, SrcPtr) /\ StartsWith(NameOf(F, SrcPtr), S_vtable) THEN TRUE
       ELSE IF /\ NumIndices(Gep) = 1
               /\ HasName(F, Index(Gep, 1))
               /\ StartsWith(NameOf(F, Index(Gep, 1)), S_vbase_offset) THEN TRUE
       ELSE FALSE

IsVtableGep(F, g) ==
    LET Gep == F.insts[g]
        SrcPtr == PointerOperand(Gep)
    IN IF HasName(F, SrcPtr) /\ StartsWith(NameOf(F, SrcPtr), S_vtable) THEN TRUE
       ELSE IF /\ NumIndices(Gep) = 1
               /\ HasName(F, Index(Gep, 1))
               /\ StartsWith(NameOf(F, Index(Gep, 1)), S_vbase_offset) THEN TRUE
       ELSE IF SrcPtr.k = "global" /\ StartsWith(SrcPtr.name, S_ZTV) THEN TRUE
       ELSE FALSE

\* GetElementPtrInst::hasAllZeroIndices: every index is the constant 0
HasAllZeroIndices(I) ==
    \A n \in 1..NumIndices(I) : Index(I, n).k = "const" /\ Index(I, n).w = Zero

\* the three "continue" tests at the head of the loop of runOnFunc
Skipped(F, g) ==
    \/ HasAllZeroIndices(F.insts[g])
    \/ IsVtableGep(F, g)
    \/ F.insts[g].vec

-----------------------------------------------------------------------------
(* IRBuilder: instructions are inserted before the insert point; an        *)
(* operation on constants only is folded and inserts nothing               *)

FoldBinOp(op, a, b) ==
    CASE op = "add" -> Add(a, b)
      [] op = "sub" -> Sub(a, b)
      [] op = "and" -> And(a, b)
      [] op = "mul" -> MulSmall(a, ShAmt(b))
      [] op = "shl" -> Shl(a, ShAmt(b))
      [] op = "lshr" -> LShr(a, ShAmt(b))

CreateBinOp(F, pos, op, nm, a, b) ==
    IF a.k = "const" /\ b.k = "const"
    THEN [F |-> F, v |-> ConstV(FoldBinOp(op, a.w, b.w))]
    ELSE [F |-> InsertBefore(F, pos, Inst(op, nm, <<a, b>>, <<>>, <<>>, FALSE)),
          v |-> InstV(Len(F.insts) + 1)]

CreateCast(F, pos, op, nm, a) ==
    [F |-> InsertBefore(F, pos, Inst(op, nm, <<a>>, <<>>, <<>>, FALSE)),
     v |-> InstV(Len(F.insts) + 1)]

-----------------------------------------------------------------------------
(* The byte offset of a GEP                                                *)

RECURSIVE SumConstOffset(_, _)
SumConstOffset(I, n) ==
    IF n > NumIndices(I) THEN Zero
    ELSE Let(SumConstOffset(I, n + 1),
             LAMBDA rest : Let(MulSmall(Index(I, n).w, I.strides[n]),
                               LAMBDA prod : Add(prod, rest)))

\* GEPOperator::accumulateConstantOffset: succeeds when every index is a
\* constant; the sum of index * element size in 64 bits
AccumulateConstantOffset(I) ==
    IF \A n \in 1..NumIndices(I) : Index(I, n).k = "const"
    THEN [ok |-> TRUE, off |-> SumConstOffset(I, 1)]
    ELSE [ok |-> FALSE, off |-> Zero]

S_idx == <<".","i","d","x">>
S_offs == <<".","o","f","f","s">>

\* emitGEPOffset: for each index that is not the constant 0, scale it by
\* its element size (unless that is 1) and add it to the running sum
RECURSIVE EmitGEPOffsetFrom(_, _, _, _, _)
EmitGEPOffsetFrom(F, pos, g, n, Result) ==
    LET GEP == F.insts[g]
        Op == Index(GEP, n)
    IN IF n > NumIndices(GEP)
       THEN [F |-> F, v |-> IF Result = NullV THEN ConstV(Zero) ELSE Result]
       ELSE IF Op.k = "const" /\ Op.w = Zero
       THEN EmitGEPOffsetFrom(F, pos, g, n + 1, Result)
       ELSE Let(IF GEP.strides[n] # 1
                THEN CreateBinOp(F, pos, "mul", GEP.name \o S_idx, Op,
                                 ConstV(FromInt(GEP.strides[n])))
                ELSE [F |-> F, v |-> Op],
                LAMBDA m :
           Let(IF Result # NullV
               THEN CreateBinOp(m.F, pos, "add", GEP.name \o S_offs, Result, m.v)
               ELSE m,
               LAMBDA a : EmitGEPOffsetFrom(a.F, pos, g, n + 1, a.v)))

EmitGEPOffset(F, pos, g) == EmitGEPOffsetFrom(F, pos, g, 1, NullV)

-----------------------------------------------------------------------------
(* The body of the loop of CanonPtrPass::runOnFunc for one GEP that is     *)
(* not skipped                                                             *)

\* variants: the flag taken from the bit below, the offset shifted one bit less
EnableBitSel_Off == 48 - 1
OffsetShift_Off == 49 - 1

EnableBitSel == 48
OffsetShift == 49

S_int == <<"i","n","t">>
S_upperbits == <<"u","p","p","e","r","b","i","t","s">>
S_enable_sel == <<"e","n","a","b","l","e",".","s","e","l">>
S_enable_bit == <<"e","n","a","b","l","e",".","b","i","t">>
S_shifted == <<"s","h","i","f","t","e","d">>
S_added == <<"a","d","d","e","d">>
S_newptr == <<"n","e","w","p","t","r">>

\* variant: the users captured after the ptrtoint was emitted
SnapshotUsers_Late(F, g) == UsersOf(F, g) \cup {Len(F.insts) + 1}

\* the users captured before anything is emitted (line 138)
SnapshotUsers(F, g) == UsersOf(F, g)

\* the operand of the synthesized ptrtoint (line 140)
PtrIntOperand(g) == InstV(g)

\* the users redirected at the end (lines 179-180)
RedirectUsers(F, Users, g, NewPtr) ==
    [F EXCEPT !.insts =
        [x \in 1..Len(F.insts) |->
            IF x \in Users THEN ReplaceUsesOfWith(F.insts[x], InstV(g), NewPtr)
            ELSE F.insts[x]]]

RewriteGEP(F0, g, ndebug) ==
    LET GEP == F0.insts[g]
        Prefix == IF GEP.name # NoName THEN GEP.name \o <<".">> ELSE <<>>
    IN
    Let(GetInsertPointAfter(F0, g, ndebug), LAMBDA ip :
    Let(SnapshotUsers(ip.F, g), LAMBDA Users :
    Let(CreateCast(ip.F, ip.pos, "ptrtoint", Prefix \o S_int, PtrIntOperand(g)),
        LAMBDA PtrInt :
    Let(CreateBinOp(PtrInt.F, ip.pos, "lshr", Prefix \o S_upperbits,
                    PtrInt.v, ConstV(FromInt(EnableBitSel))),
        LAMBDA UpperBits :
    Let(CreateBinOp(UpperBits.F, ip.pos, "and", Prefix \o S_enable_sel,
                    UpperBits.v, ConstV(FromInt(1))),
        LAMBDA EnableSel :
    \* CreateNeg: sub 0, x
    Let(CreateBinOp(EnableSel.F, ip.pos, "sub", Prefix \o S_enable_bit,
                    ConstV(Zero), EnableSel.v),
        LAMBDA EnableBit :
    Let(AccumulateConstantOffset(GEP), LAMBDA co :
    Let(IF co.ok THEN [F |-> EnableBit.F, v |-> ConstV(co.off)]
        ELSE EmitGEPOffset(EnableBit.F, ip.pos, g),
        LAMBDA Diff :
    Let(CreateBinOp(Diff.F, ip.pos, "shl", Prefix \o S_shifted,
                    Diff.v, ConstV(FromInt(OffsetShift))),
        LAMBDA Shifted :
    Let(CreateBinOp(Shifted.F, ip.pos, "and", NoName, Shifted.v, EnableBit.v),
        LAMBDA AddOffset :
    Let(CreateBinOp(AddOffset.F, ip.pos, "add", Prefix \o S_added,
                    PtrInt.v, AddOffset.v),
        LAMBDA PtrAdd :
    Let(CreateCast(PtrAdd.F, ip.pos, "inttoptr", Prefix \o S_newptr, PtrAdd.v),
        LAMBDA NewPtr :
        [F |-> RedirectUsers(NewPtr.F, Users, g, NewPtr.v),
         users |-> Users,
         ptrint |-> PtrInt.v.id,
         diff |-> Diff.v,
         newptr |-> NewPtr.v.id,
         synth |-> (Len(F0.insts) + 1)..Len(NewPtr.F.insts)]))))))))))))

-----------------------------------------------------------------------------------------------------------------------------------------------------
(* Execution of the instructions of a straight-line function (one block),  *)
(* given the values e.args of its arguments and e.glob of the address of a *)
(* global.  Pointers are 64 bits wide, so ptrtoint to i64 and inttoptr     *)
(* from i64 keep all 64 bits.  regs maps the instructions executed so far  *)
(* to their values.                                                        *)

EvalV(v, regs, e) ==
    CASE v.k = "const" -> v.w
      [] v.k = "arg" -> e.args[v.id]
      [] v.k = "global" -> e.glob
      [] v.k = "inst" -> regs[v.id]

\* getelementptr: base + sum of index * element size, modulo 2^64
RECURSIVE EvalGep(_, _, _, _, _)
EvalGep(I, n, acc, regs, e) ==
    IF n > NumIndices(I) THEN acc
    ELSE Let(MulSmall(EvalV(Index(I, n), regs, e), I.strides[n]), LAMBDA prod :
         Let(Add(acc, prod), LAMBDA sum : EvalGep(I, n + 1, sum, regs, e)))

EvalI(I, regs, e) ==
    CASE I.op = "gep" -> EvalGep(I, 1, EvalV(PointerOperand(I), regs, e), regs, e)
      [] I.op \in {"ptrtoint", "inttoptr"} -> EvalV(I.ops[1], regs, e)
      [] I.op \in {"add", "sub", "and", "mul", "shl", "lshr"} ->
             FoldBinOp(I.op, EvalV(I.ops[1], regs, e), EvalV(I.ops[2], regs, e))
      [] OTHER -> Zero

NoVals == [f |-> 0, j |-> 0, v |-> <<>>]

-----------------------------------------------------------------------------
(* The driver: CanonPtrPass::run and CanonPtrPass::runOnFunc               *)

MaxRuns == 2

\* variant: every GEP is pushed twice
ScanGEPs_Twice(F) ==
    SelectSeq(Instructions(F), LAMBDA i : F.insts[i].op = "gep")
    \o SelectSeq(Instructions(F), LAMBDA i : F.insts[i].op = "gep")

\* lines 112-117: the GEPs of F, in layout order
ScanGEPs(F) == SelectSeq(Instructions(F), LAMBDA i : F.insts[i].op = "gep")

\* run() is entered
RunBegin ==
    /\ pc = "idle"
    /\ runs < MaxRuns
    /\ pc' = "module"
    /\ fi' = 1
    /\ runs' = runs + 1
    /\ vals' = NoVals
    /\ UNCHANGED <<module, GEPs, gi, log, env, ret, calls>>

\* line 188 is false for the function at hand
SkipFunc ==
    /\ pc = "module"
    /\ fi <= Len(module)
    /\ ~ShouldInstrument(module[fi])
    /\ fi' = fi + 1
    /\ UNCHANGED <<module, pc, GEPs, gi, runs, log, env, vals, ret, calls>>

\* line 188 is true: runOnFunc is entered and takes its snapshot
ScanFunc ==
    /\ pc = "module"
    /\ fi <= Len(module)
    /\ ShouldInstrument(module[fi])
    /\ GEPs' = ScanGEPs(module[fi])
    /\ gi' = 1
    /\ pc' = "geps"
    /\ UNCHANGED <<module, fi, runs, log, env, vals, ret, calls>>

LogEntry(g, skipped, r) ==
    [run |-> runs, f |-> fi, gep |-> g, skipped |-> skipped,
     users |-> r.users, ptrint |-> r.ptrint, newptr |-> r.newptr, synth |-> r.synth]

NoRewrite == [users |-> {}, ptrint |-> 0, newptr |-> 0, synth |-> {}]

\* one iteration of the loop at line 119 that ends in a continue
SkipGEP ==
    /\ pc = "geps"
    /\ gi <= Len(GEPs)
    /\ Skipped(module[fi], GEPs[gi])
    /\ gi' = gi + 1
    /\ log' = Append(log, LogEntry(GEPs[gi], TRUE, NoRewrite))
    /\ UNCHANGED <<module, pc, fi, GEPs, runs, env, vals, ret, calls>>

\* one iteration of the loop at line 119 that rewrites
RewriteStep ==
    /\ pc = "geps"
    /\ gi <= Len(GEPs)
    /\ ~Skipped(module[fi], GEPs[gi])
    /\ \E ndebug \in BOOLEAN :
         \E r \in {RewriteGEP(module[fi], GEPs[gi], ndebug)} :
            /\ module' = [module EXCEPT ![fi] = r.F]
            /\ log' = Append(log, LogEntry(GEPs[gi], FALSE, r))
    /\ gi' = gi + 1
    /\ UNCHANGED <<pc, fi, GEPs, runs, env, vals, ret, calls>>

\* the loop at line 119 is over: runOnFunc returns
FuncDone ==
    /\ pc = "geps"
    /\ gi > Len(GEPs)
    /\ pc' = "module"
    /\ fi' = fi + 1
    /\ UNCHANGED <<module, GEPs, gi, runs, log, env, vals, ret, calls>>

\* the loop at line 187 is over: run() returns
RunEnd ==
    /\ pc = "module"
    /\ fi > Len(module)
    /\ pc' = "idle"
    /\ UNCHANGED <<module, fi, GEPs, gi, runs, log, env, vals, ret, calls>>

\* the program enters a straight-line function of the module, with env
ExecStart ==
    /\ pc = "idle"
    /\ \E f \in 1..Len(module) :
         /\ Len(module[f].blocks) = 1
         /\ vals' = [f |-> f, j |-> 1, v |-> [x \in 1..Len(module[f].insts) |-> Zero]]
    /\ pc' = "exec"
    /\ UNCHANGED <<module, fi, GEPs, gi, runs, log, env, ret, calls>>

\* the program executes the next instruction of the function
ExecStep ==
    /\ pc = "exec"
    /\ LET F == module[vals.f]
           L == F.blocks[1].insts
       IN IF IsTerminator(F.insts[L[vals.j]])
          THEN /\ pc' = "idle"
               /\ vals' = [vals EXCEPT !.j = 0]
          ELSE /\ \E val \in {EvalI(F.insts[L[vals.j]], vals.v, env)} :
                     vals' = [vals EXCEPT !.j = vals.j + 1, !.v[L[vals.j]] = val]
               /\ pc' = pc
    /\ UNCHANGED <<module, fi, GEPs, gi, runs, log, env, ret, calls>>

PassStep == SkipFunc \/ ScanFunc \/ SkipGEP \/ RewriteStep \/ FuncDone \/ RunEnd

Next == RunBegin \/ SkipFunc \/ ScanFunc \/ SkipGEP \/ RewriteStep \/ FuncDone \/ RunEnd

NextArith ==
    \/ RunBegin \/ SkipFunc \/ ScanFunc \/ SkipGEP \/ RewriteStep \/ FuncDone \/ RunEnd
    \/ ExecStart \/ ExecStep

-----------------------------------------------------------------------------
(* Input modules                                                           *)

N_p == <<"p">>
N_i == <<"i">>
N_g == <<"g">>
N_h == <<"h">>
N_f == <<"f">>
N_entry == <<"e","n","t","r","y">>
N_loop == <<"l","o","o","p">>
N_exit == <<"e","x","i","t">>

ArgP == ArgV(1, N_p)
ArgI == ArgV(2, N_i)
C(n) == ConstV(FromInt(n))

Gep(nm, base, idx, strides, vec) == Inst("gep", nm, <<base>> \o idx, <<>>, strides, vec)
Plain(op, ops) == Inst(op, NoName, ops, <<>>, <<>>, FALSE)
Term(op, ops, succs) == Inst(op, NoName, ops, succs, <<>>, FALSE)
Phi(nm, ops, blks) == Inst("phi", nm, ops, blks, <<>>, FALSE)

\* first GEP of a function: rewritten ones ...
RewrittenGeps ==
    { Gep(N_g, ArgP, <<C(1)>>, <<8>>, FALSE),
      Gep(NoName, ArgP, <<C(-1)>>, <<4>>, FALSE),
      Gep(N_g, ArgP, <<ArgI>>, <<4>>, FALSE),
      Gep(N_g, ArgP, <<C(0), C(2)>>, <<16, 4>>, FALSE),
      Gep(N_g, ArgP, <<ArgI, C(1)>>, <<16, 1>>, FALSE),
      Gep(N_g, ArgP, <<C(1), C(-1)>>, <<4, 4>>, FALSE),
      Gep(N_g, ArgP, <<C(5000)>>, <<8>>, FALSE),
      \* near misses of the vtable heuristics
      Gep(N_g, ArgV(1, <<"v","t","a","b","l">>), <<C(1)>>, <<8>>, FALSE),
      Gep(N_g, ArgP, <<C(1), ArgV(2, S_vbase_offset)>>, <<8, 1>>, FALSE),
      Gep(N_g, ArgV(1, S_ZTV), <<C(2)>>, <<8>>, FALSE),
      Gep(S_vtable \o <<".","p">>, GlobalV(<<"_","Z","T","S","1","A">>), <<C(2)>>, <<8>>, FALSE) }

\* ... and skipped ones
SkippedGeps ==
    { Gep(N_g, ArgP, <<C(0), C(0)>>, <<16, 4>>, FALSE),
      Gep(N_g, ArgV(1, S_vtable \o <<"1">>), <<C(1)>>, <<8>>, FALSE),
      Gep(N_g, ArgP, <<ArgV(2, S_vbase_offset)>>, <<1>>, FALSE),
      Gep(N_g, GlobalV(S_ZTV \o <<"1","A">>), <<C(2)>>, <<8>>, FALSE),
      Gep(N_g, ArgP, <<C(1)>>, <<8>>, TRUE) }

\* second GEP of a function, on the first GEP (instruction 1)
ChainedGeps ==
    { Gep(N_h, InstV(1), <<C(2)>>, <<8>>, FALSE),
      Gep(N_h, InstV(1), <<ArgI>>, <<1>>, FALSE),
      Gep(N_h, InstV(1), <<C(0)>>, <<8>>, FALSE) }

\* g = gep ..; h = gep ..; store g, h; icmp g, g; ret
Straight(A, B) ==
    [blocks |-> << [id |-> 1, name |-> N_entry, insts |-> <<1, 2, 3, 4, 5>>] >>,
     insts |-> << A, B,
                  Plain("store", <<InstV(1), InstV(2)>>),
                  Plain("icmp", <<InstV(1), InstV(1)>>),
                  Term("ret", <<>>, <<>>) >>]

\* entry: g = gep ..; br loop
\* loop:  x = phi [g, entry], [h, loop]; h = gep x, ..; br loop, exit
\* exit:  ret
Loop(A) ==
    [blocks |-> << [id |-> 1, name |-> N_entry, insts |-> <<1, 2>>],
                   [id |-> 2, name |-> N_loop, insts |-> <<3, 4, 5>>],
                   [id |-> 3, name |-> N_exit, insts |-> <<6>>] >>,
     insts |-> << A,
                  Term("br", <<>>, <<2>>),
                  Phi(<<"x">>, <<InstV(1), InstV(4)>>, <<1, 2>>),
                  Gep(N_h, InstV(3), <<C(1)>>, <<8>>, FALSE),
                  Term("br", <<ArgI>>, <<2, 3>>),
                  Term("ret", <<>>, <<>>) >>]

NoBody == [blocks |-> <<>>, insts |-> <<>>]

Bodies ==
    {Straight(A, B) : A \in RewrittenGeps \cup SkippedGeps, B \in ChainedGeps}
    \cup {Loop(A) : A \in {Gep(N_g, ArgP, <<C(1)>>, <<8>>, FALSE),
                           Gep(N_g, ArgP, <<C(0)>>, <<8>>, FALSE)}}
    \cup {NoBody}

Linkages == {"external", "available_externally"}
FuncNames == {N_f, S_canonptr \o <<"r","t">>}
FnAttrs == {"DisableSanitizerInstrumentation", "CanonPtr"}

Func(nm, linkage, attrs, body) ==
    [name |-> nm, linkage |-> linkage, attrs |-> attrs,
     blocks |-> body.blocks, insts |-> body.insts]

Functions ==
    {Func(nm, l, a, b) : nm \in FuncNames, l \in Linkages, a \in SUBSET FnAttrs, b \in Bodies}

\* the second function of the module
OtherFunctions ==
    {Func(N_h, "external", a, b) :
        a \in {{"CanonPtr"}, {}},
        b \in {NoBody, Straight(Gep(N_g, ArgP, <<C(3)>>, <<4>>, FALSE),
                                Gep(N_h, InstV(1), <<C(2)>>, <<8>>, FALSE))}}

Word(l0, l1, l2, l3) == <<l0, l1, l2, l3>>

Env0 == [args |-> <<Word(4096, 0, 1, 0), FromInt(1)>>, glob |-> Word(8192, 0, 0, 0)]

NoRet == [st |-> "none", pos |-> 0, kind |-> "none", of |-> 0, before |-> NoBody]

InitDriver ==
    /\ pc = "idle"
    /\ fi = 0
    /\ GEPs = <<>>
    /\ gi = 0
    /\ runs = 0
    /\ log = <<>>
    /\ vals = NoVals
    /\ ret = NoRet
    /\ calls = 0

Init ==
    /\ module \in {<<F, G>> : F \in Functions, G \in OtherFunctions}
    /\ env = Env0
    /\ InitDriver

Spec == Init /\ [][Next]_vars

\* run() is a single-threaded batch computation: once entered it proceeds
FairSpec == Spec /\ WF_vars(PassStep)

-----------------------------------------------------------------------------
(* The pass followed by the execution of the rewritten code on concrete    *)
(* pointer and index values                                                *)

\* pointers: low 48 bits, the flag bit (bit 48), and the 15 bits above it
Pointers ==
    {Word(lo[1], lo[2], lo[3], flag + 2 * hi) :
        lo \in {<<4096, 0, 1>>, <<65528, 65535, 65535>>},
        flag \in {0, 1},
        hi \in {0, 5, 32767}}

IndexValues == {FromInt(1), FromInt(-1), FromInt(3)}

Envs == {[args |-> <<ptr, ix>>, glob |-> Zero] : ptr \in Pointers, ix \in IndexValues}

ArithGeps ==
    { Gep(N_g, ArgP, <<C(1)>>, <<8>>, FALSE),
      Gep(NoName, ArgP, <<C(-1)>>, <<4>>, FALSE),
      Gep(N_g, ArgP, <<C(5000)>>, <<8>>, FALSE),
      Gep(N_g, ArgP, <<ArgI>>, <<4>>, FALSE),
      Gep(N_g, ArgP, <<ArgI, C(1)>>, <<16, 1>>, FALSE),
      Gep(N_g, ArgP, <<C(1), C(-1)>>, <<4, 4>>, FALSE) }

InitArith ==
    /\ module \in {<<Func(N_f, "external", {"CanonPtr"}, Straight(A, B)),
                     Func(N_h, "external", {"CanonPtr"}, NoBody)>> :
                        A \in ArithGeps, B \in ChainedGeps}
    /\ env \in Envs
    /\ InitDriver

SpecArith == InitArith /\ [][NextArith]_vars

-----------------------------------------------------------------------------
(* getInsertPointAfter called on its own, on any instruction or argument   *)
(* of a function                                                           *)

MaxCalls == 2

N_c == <<"c">>
N_t == <<"t">>
N_lpad == <<"l","p","a","d">>

\* entry: a = alloca; br c [, t]
\* c:     v = load a; r = invoke .. to t unwind lpad
\* t:     nphi PHIs with an entry for c (and for entry); ret
\* lpad:  landingpad; unreachable
OneInvoke(entryToT, nphi) ==
    LET keys == IF entryToT THEN <<2, 1>> ELSE <<2>>
        vs(x) == IF entryToT THEN <<x, InstV(1)>> ELSE <<x>>
        phis == SubSeq(<<Phi(<<"x">>, vs(InstV(4)), keys), Phi(<<"y">>, vs(InstV(3)), keys)>>,
                       1, nphi)
    IN [blocks |-> << [id |-> 1, name |-> N_entry, insts |-> <<1, 2>>],
                      [id |-> 2, name |-> N_c, insts |-> <<3, 4>>],
                      [id |-> 3, name |-> N_t, insts |-> SubSeq(<<8, 9>>, 1, nphi) \o <<5>>],
                      [id |-> 4, name |-> N_lpad, insts |-> <<6, 7>>] >>,
        insts |-> << Plain("alloca", <<>>),
                     Term("br", <<>>, IF entryToT THEN <<2, 3>> ELSE <<2>>),
                     Plain("load", <<InstV(1)>>),
                     Term("invoke", <<InstV(3)>>, <<3, 4>>),
                     Term("ret", <<>>, <<>>),
                     Plain("landingpad", <<>>),
                     Term("unreachable", <<>>, <<>>) >> \o phis]

\* entry: a = alloca; br c
\* c:     x = phi [a, entry], [v, c]; v = load x; invoke .. to c unwind lpad
\* lpad:  landingpad; ret
SelfLoop ==
    [blocks |-> << [id |-> 1, name |-> N_entry, insts |-> <<1, 2>>],
                   [id |-> 2, name |-> N_c, insts |-> <<3, 4, 5>>],
                   [id |-> 3, name |-> N_lpad, insts |-> <<6, 7>>] >>,
     insts |-> << Plain("alloca", <<>>),
                  Term("br", <<>>, <<2>>),
                  Phi(<<"x">>, <<InstV(1), InstV(4)>>, <<1, 2>>),
                  Plain("load", <<InstV(3)>>),
                  Term("invoke", <<InstV(4)>>, <<2, 3>>),
                  Plain("landingpad", <<>>),
                  Term("ret", <<>>, <<>>) >>]

\* entry: br c, d
\* c:     r = invoke .. to t unwind lpad
\* d:     s = invoke .. to t unwind lpad
\* t:     x = phi [r, c], [s, d]; ret
\* lpad:  y = phi [0, c], [1, d]; landingpad; unreachable
TwoInvokes ==
    [blocks |-> << [id |-> 1, name |-> N_entry, insts |-> <<1>>],
                   [id |-> 2, name |-> N_c, insts |-> <<2>>],
                   [id |-> 3, name |-> <<"d">>, insts |-> <<3>>],
                   [id |-> 4, name |-> N_t, insts |-> <<4, 5>>],
                   [id |-> 5, name |-> N_lpad, insts |-> <<6, 7, 8>>] >>,
     insts |-> << Term("br", <<ArgI>>, <<2, 3>>),
                  Term("invoke", <<ArgP>>, <<4, 5>>),
                  Term("invoke", <<ArgP>>, <<4, 5>>),
                  Phi(<<"x">>, <<InstV(2), InstV(3)>>, <<2, 3>>),
                  Term("ret", <<InstV(4)>>, <<>>),
                  Phi(<<"y">>, <<C(0), C(1)>>, <<2, 3>>),
                  Plain("landingpad", <<>>),
                  Term("unreachable", <<>>, <<>>) >>]

InvokeBodies ==
    {OneInvoke(e, n) : e \in BOOLEAN, n \in 0..2} \cup {SelfLoop, TwoInvokes}

\* a caller asks for the insert point after instruction i of the function
ResolveInst ==
    /\ pc = "resolver"
    /\ calls < MaxCalls
    /\ ret.st \in {"none", "ok"}
    /\ \E i \in 1..Len(module[1].insts), ndebug \in BOOLEAN :
         \E r \in {GetInsertPointAfter(module[1], i, ndebug)} :
            /\ module' = [module EXCEPT ![1] = r.F]
            /\ ret' = [st |-> r.st, pos |-> r.pos, kind |-> "inst", of |-> i,
                       before |-> [blocks |-> module[1].blocks, insts |-> module[1].insts]]
    /\ calls' = calls + 1
    /\ UNCHANGED <<pc, fi, GEPs, gi, runs, log, env, vals>>

\* a caller asks for the insert point after an argument of the function
ResolveArg ==
    /\ pc = "resolver"
    /\ calls < MaxCalls
    /\ ret.st \in {"none", "ok"}
    /\ \E ndebug \in BOOLEAN :
         \E r \in {GetInsertPointAfterArg(module[1], ndebug)} :
            /\ module' = [module EXCEPT ![1] = r.F]
            /\ ret' = [st |-> r.st, pos |-> r.pos, kind |-> "arg", of |-> 0,
                       before |-> [blocks |-> module[1].blocks, insts |-> module[1].insts]]
    /\ calls' = calls + 1
    /\ UNCHANGED <<pc, fi, GEPs, gi, runs, log, env, vals>>

NextIP == ResolveInst \/ ResolveArg

InitIP ==
    /\ module \in {<<Func(N_f, "external", {"CanonPtr"}, b)>> : b \in InvokeBodies \cup {NoBody}}
    /\ env = Env0
    /\ pc = "resolver"
    /\ fi = 0
    /\ GEPs = <<>>
    /\ gi = 0
    /\ runs = 0
    /\ log = <<>>
    /\ vals = NoVals
    /\ ret = NoRet
    /\ calls = 0

SpecIP == InitIP /\ [][NextIP]_vars


-----------------------------------------------------------------------------
(* Properties of the synthesized arithmetic (SpecArith)                    *)

\* the executed function has returned
ExecDone == pc = "idle" /\ vals.f # 0

\* the log entries of the rewrites made in function f
RewritesOf(f) == {k \in 1..Len(log) : log[k].f = f /\ ~log[k].skipped}

\* the pointer value p that the sequence of rewrite k starts from (the
\* operand of its ptrtoint) and the value of the inttoptr it ends with
InputPtr(k) == EvalV(module[log[k].f].insts[log[k].ptrint].ops[1], vals.v, env)
NewPtrVal(k) == vals.v[log[k].newptr]

\* bit 48, bits 0..48 and bits 49..63 of a word, read off its limbs
FlagBit(w) == w[4] % 2
Low49(w) == <<w[1], w[2], w[3], w[4] % 2>>
High15(w) == w[4] \div 2

IsConstGep(I) == \A n \in 1..NumIndices(I) : Index(I, n).k = "const"
IsNegative(w) == w[4] >= 32768

\* the integer a small constant stands for
SmallInt(w) == IF IsNegative(w) THEN w[1] - 65536 ELSE w[1]

RECURSIVE StaticOffsetFrom(_, _)
StaticOffsetFrom(I, n) ==
    IF n > NumIndices(I) THEN 0
    ELSE SmallInt(Index(I, n).w) * I.strides[n] + StaticOffsetFrom(I, n + 1)

\* the statically known byte offset of a GEP with constant indices
StaticOffset(I) == StaticOffsetFrom(I, 1)

\* C1: when bit 48 of the pointer p a rewrite starts from is 0, the value of
\* its newptr is bit-identical to p, whatever the offset (constant or
\* dynamic, positive or negative)
C1_IdentityLaw ==
    ExecDone =>
        \A k \in RewritesOf(vals.f) :
            FlagBit(InputPtr(k)) = 0 => NewPtrVal(k) = InputPtr(k)

\* a rewrite of a GEP with a dynamic, negative offset was executed on a
\* pointer with bit 48 clear and bits above it set
C1_Witness ==
    /\ ExecDone
    /\ \E k \in RewritesOf(vals.f) :
          /\ FlagBit(InputPtr(k)) = 0
          /\ High15(InputPtr(k)) # 0
          /\ ~IsConstGep(module[vals.f].insts[log[k].gep])
          /\ IsNegative(env.args[2])
          /\ NewPtrVal(k) = InputPtr(k)

\* C2: when bit 48 of p is 1 and the offset o is statically known, the
\* integer value of newptr is p + (o << 49) modulo 2^64: bits 0..48 are
\* those of p and bits 49..63 hold (bits 49..63 of p) + o modulo 2^15
C2_OffsetEmbedding ==
    ExecDone =>
        \A k \in RewritesOf(vals.f) :
            LET I == module[vals.f].insts[log[k].gep]
                p == InputPtr(k)
            IN (FlagBit(p) = 1 /\ IsConstGep(I)) =>
                  /\ Low49(NewPtrVal(k)) = Low49(p)
                  /\ High15(NewPtrVal(k)) = (High15(p) + StaticOffset(I)) % 32768
                  /\ NewPtrVal(k) = Add(p, Shl(FromInt(StaticOffset(I)), 49))

\* a rewrite with a negative static offset was executed on a pointer with
\* bit 48 set, and the sum wrapped around
C2_Witness ==
    /\ ExecDone
    /\ \E k \in RewritesOf(vals.f) :
          LET I == module[vals.f].insts[log[k].gep]
          IN /\ FlagBit(InputPtr(k)) = 1
             /\ IsConstGep(I)
             /\ StaticOffset(I) < 0
             /\ High15(InputPtr(k)) = 0
             /\ High15(NewPtrVal(k)) = 32768 + StaticOffset(I)

-----------------------------------------------------------------------------
(* Properties of the driver (Spec, FairSpec)                               *)

Range(q) == {q[x] : x \in 1..Len(q)}

\* the loop of runOnFunc is about to process GEPs[gi]
AtCandidate == pc = "geps" /\ gi <= Len(GEPs)

\* C3: when the pass is run twice, the second run rewrites nothing and no
\* instruction is rewritten more than once in total
C3_SecondRunRewritesNothing ==
    /\ \A k \in 1..Len(log) : log[k].run >= 2 => log[k].skipped
    /\ \A k1, k2 \in 1..Len(log) :
          (/\ k1 # k2
           /\ ~log[k1].skipped /\ ~log[k2].skipped
           /\ log[k1].f = log[k2].f) => log[k1].gep # log[k2].gep

\* the five skip conditions, read off the instruction
AllIndicesZero(I) == \A n \in 2..Len(I.ops) : I.ops[n] = ConstV(Zero)
BaseNamedVtable(F, I) == StartsWith(NameOf(F, I.ops[1]), S_vtable)
OneIndexNamedVbaseOffset(F, I) ==
    Len(I.ops) = 2 /\ StartsWith(NameOf(F, I.ops[2]), S_vbase_offset)
BaseIsZTVGlobal(I) == I.ops[1].k = "global" /\ StartsWith(I.ops[1].name, S_ZTV)
ResultIsVector(I) == I.vec

MustBeSkipped(F, g) ==
    \/ AllIndicesZero(F.insts[g])
    \/ BaseNamedVtable(F, F.insts[g])
    \/ OneIndexNamedVbaseOffset(F, F.insts[g])
    \/ BaseIsZTVGlobal(F.insts[g])
    \/ ResultIsVector(F.insts[g])

\* C4: a candidate with all indices zero, or a base named vtable.., or a
\* single index named vbase.offset.., or a _ZTV.. global as base, or a vector
\* result is left untouched: processing it changes nothing in the module (no
\* instruction, no block, no operand)
C4_SkipNotFail ==
    [][(AtCandidate /\ MustBeSkipped(module[fi], GEPs[gi])) => module' = module]_vars

\* a GEP on a _ZTV global with a non-zero index was processed and its user
\* still has it as operand
C4_Witness ==
    \E k \in 1..Len(log) :
        LET F == module[log[k].f]
        IN /\ log[k].skipped
           /\ BaseIsZTVGlobal(F.insts[log[k].gep])
           /\ ~AllIndicesZero(F.insts[log[k].gep])
           /\ F.insts[3].ops[1] = InstV(log[k].gep)
           /\ Len(F.insts) = 5

\* the five eligibility predicates, read off the function
Eligible(F) ==
    /\ Len(F.blocks) > 0
    /\ F.linkage # "available_externally"
    /\ ~StartsWith(F.name, S_canonptr)
    /\ "DisableSanitizerInstrumentation" \notin F.attrs
    /\ "CanonPtr" \in F.attrs

\* C6: a function that fails one of the five predicates is never changed and
\* none of its instructions is ever processed; so only functions satisfying
\* all five are rewritten
C6_EligibilityGating ==
    [][\A f \in 1..Len(module) :
          ~Eligible(module[f]) =>
              /\ module'[f] = module[f]
              /\ \A k \in 1..Len(log') : log'[k].f # f]_vars

\* a run has ended that rewrote the second function and left alone a first
\* function that has a body with GEPs and fails the opt-out predicate only
C6_Witness ==
    /\ pc = "idle" /\ runs = 1
    /\ Len(module[1].blocks) > 0
    /\ module[1].linkage = "external"
    /\ module[1].name = N_f
    /\ module[1].attrs = {"DisableSanitizerInstrumentation", "CanonPtr"}
    /\ Len(module[1].insts) = 5
    /\ ~Skipped(module[1], 1)
    /\ \E k \in 1..Len(log) : log[k].f = 2 /\ ~log[k].skipped

\* C7: the step that rewrites a candidate g redirects every instruction that
\* had g as an operand to newptr, in each operand slot that held g and in no
\* other; the synthesized ptrtoint keeps g as its operand and is then the
\* only user of g; g itself is unchanged and stays where it was in its block
C7_ConsumerRewiring ==
    [][(AtCandidate /\ ~Skipped(module[fi], GEPs[gi])) =>
          LET g == GEPs[gi]
              F == module[fi]
              F2 == module'[fi]
              e == log'[Len(log')]
          IN /\ e.gep = g /\ ~e.skipped
             /\ e.users = UsersOf(F, g)
             /\ e.newptr \in e.synth /\ e.ptrint \in e.synth
             /\ e.synth = (Len(F.insts) + 1)..Len(F2.insts)
             /\ F2.insts[e.newptr].op = "inttoptr"
             /\ \A u \in UsersOf(F, g) :
                   /\ Len(F2.insts[u].ops) = Len(F.insts[u].ops)
                   /\ \A j \in 1..Len(F.insts[u].ops) :
                         F2.insts[u].ops[j] =
                             IF F.insts[u].ops[j] = InstV(g) THEN InstV(e.newptr)
                             ELSE F.insts[u].ops[j]
             /\ \A x \in 1..Len(F.insts) : x \notin UsersOf(F, g) => F2.insts[x] = F.insts[x]
             /\ F2.insts[e.ptrint].op = "ptrtoint"
             /\ F2.insts[e.ptrint].ops = <<InstV(g)>>
             /\ UsersOf(F2, g) = {e.ptrint}
             /\ \A x \in e.synth : InstV(e.newptr) \notin Range(F2.insts[x].ops)
             /\ F2.insts[g] = F.insts[g]
             /\ ParentIdx(F2, g) = ParentIdx(F, g)
             /\ PosIn(F2, g) = PosIn(F, g)
             /\ Len(F2.blocks) = Len(F.blocks)]_vars

\* a GEP with three users, one of them holding it in two operand slots, was
\* rewritten: both slots now hold newptr
C7_Witness ==
    \E k \in 1..Len(log) :
        LET F == module[log[k].f]
        IN /\ ~log[k].skipped
           /\ Cardinality(log[k].users) = 3
           /\ \E u \in log[k].users :
                 F.insts[u].ops = <<InstV(log[k].newptr), InstV(log[k].newptr)>>
           /\ UsersOf(F, log[k].gep) = {log[k].ptrint}

NumGEPs(F) == Cardinality({i \in 1..Len(F.insts) : F.insts[i].op = "gep"})

\* the entries of the current run for function f that are rewrites
RewritesInRun(f) ==
    {k \in 1..Len(log) : log[k].run = runs /\ log[k].f = f /\ ~log[k].skipped}

C8_Inv ==
    /\ pc = "geps" =>
          LET F == module[fi]
              n == Len(GEPs)
              done == gi - 1
          IN /\ gi \in 1..(n + 1)
             /\ \A k \in 1..n : F.insts[GEPs[k]].op = "gep"
             /\ \A a, b \in 1..n : a # b => GEPs[a] # GEPs[b]
             /\ NumGEPs(F) = n
             /\ Len(log) >= done
             /\ \A k \in 1..done :
                   LET e == log[Len(log) - done + k]
                   IN /\ e.gep = GEPs[k] /\ e.run = runs /\ e.f = fi
                      /\ e.synth \cap Range(GEPs) = {}
    /\ \A f \in 1..Len(module) : Cardinality(RewritesInRun(f)) <= NumGEPs(module[f])

\* C8: within a run over a function the candidate list never changes once
\* taken, holds each GEP the function had at entry once and no synthesized
\* instruction, is walked once in order, and the walk ends, with at most as
\* many rewrites as the function had GEPs at entry
C8_SnapshotBoundedTermination ==
    /\ []C8_Inv
    /\ [][(pc = "geps" /\ pc' = "geps") => (GEPs' = GEPs /\ gi' = gi + 1)]_vars
    /\ [][(pc = "geps" /\ pc' # "geps") =>
             (gi = Len(GEPs) + 1 /\ NumGEPs(module'[fi]) = Len(GEPs))]_vars
    /\ (pc = "geps") ~> (pc = "module")

\* the walk over a snapshot of two GEPs has ended after two rewrites
C8_Witness ==
    /\ pc = "module"
    /\ Len(GEPs) = 2
    /\ gi = 3
    /\ fi >= 2
    /\ Cardinality(RewritesInRun(fi - 1)) = 2
    /\ Len(module[fi - 1].insts) > 5

-----------------------------------------------------------------------------
(* Properties of getInsertPointAfter (SpecIP)                              *)

BodyOf(F) == [blocks |-> F.blocks, insts |-> F.insts]
BlockIds(F) == {F.blocks[x].id : x \in 1..Len(F.blocks)}
BlockInsts(F, b) == F.blocks[BlockIndex(F, b)].insts
TerminatorOf(F, b) == F.insts[BlockInsts(F, b)[Len(BlockInsts(F, b))]]
Succs(F, b) == Range(TerminatorOf(F, b).blks)
Preds(F, b) == {c \in BlockIds(F) : b \in Succs(F, c)}
\* the blocks that reach b by a branch or by the normal edge of an invoke
NormalPreds(F, b) ==
    {c \in BlockIds(F) :
        IF TerminatorOf(F, c).op = "invoke" THEN TerminatorOf(F, c).blks[1] = b
        ELSE b \in Succs(F, c)}
PHIsOf(F, b) == {x \in Range(BlockInsts(F, b)) : F.insts[x].op = "phi"}

\* the last call was made on an invoke
SplitDone == ret.kind = "inst" /\ ret.before.insts[ret.of].op = "invoke"

\* C5: the call on an invoke in block c with normal target t creates one
\* block b, entered only from c by the normal edge of the invoke and holding
\* only a jump to t; c no longer reaches t by its normal edge; in every PHI
\* of t the entries keyed by c are keyed by b, values and other entries
\* unchanged; the position returned is the jump of b
C5_EdgeSplitting ==
    SplitDone =>
        LET B0 == ret.before
            F == module[1]
            i == ret.of
            c == B0.blocks[ParentIdx(B0, i)].id
            t == B0.insts[i].blks[1]
            new == BlockIds(F) \ BlockIds(B0)
        IN /\ ret.st = "ok"
           /\ Cardinality(new) = 1
           /\ Len(F.blocks) = Len(B0.blocks) + 1
           /\ \A b \in new :
                 /\ Preds(F, b) = {c}
                 /\ F.insts[i].blks[1] = b
                 /\ F.insts[i].blks[2] = B0.insts[i].blks[2]
                 /\ Succs(F, b) = {t}
                 /\ BlockInsts(F, b) = <<ret.pos>>
                 /\ F.insts[ret.pos] = Term("br", <<>>, <<t>>)
                 /\ c \notin NormalPreds(F, t)
                 /\ b \in NormalPreds(F, t)
                 /\ PHIsOf(F, t) = PHIsOf(B0, t)
                 /\ \A x \in PHIsOf(B0, t) :
                       /\ F.insts[x].ops = B0.insts[x].ops
                       /\ Len(F.insts[x].blks) = Len(B0.insts[x].blks)
                       /\ \A j \in 1..Len(B0.insts[x].blks) :
                             F.insts[x].blks[j] =
                                 IF B0.insts[x].blks[j] = c THEN b
                                 ELSE B0.insts[x].blks[j]
                       /\ Range(F.insts[x].blks) = Preds(F, t)

\* an invoke was split whose target has two PHIs, each with an entry for
\* the block of the invoke and one for another predecessor
C5_Witness ==
    /\ SplitDone
    /\ LET B0 == ret.before
           t == B0.insts[ret.of].blks[1]
           c == B0.blocks[ParentIdx(B0, ret.of)].id
       IN /\ Cardinality(PHIsOf(B0, t)) = 2
          /\ \A x \in PHIsOf(B0, t) :
                c \in Range(B0.insts[x].blks) /\ Range(B0.insts[x].blks) # {c}
          /\ \A x \in PHIsOf(module[1], t) : c \notin Range(module[1].insts[x].blks)

\* the last call was made on a terminator that is not an invoke
AfterPlainTerminator ==
    /\ ret.kind = "inst"
    /\ IsTerminator(ret.before.insts[ret.of])
    /\ ret.before.insts[ret.of].op # "invoke"

\* C9: the call on a terminator that is not an invoke aborts: nothing is
\* returned and the function is unchanged
C9_FatalOnTerminator ==
    AfterPlainTerminator => (ret.st = "abort" /\ BodyOf(module[1]) = ret.before)

=============================================================================
